---- MODULE Spec2Model ----
(***************************************************************************)
(* Model of the two UI components of the autocoder dashboard:              *)
(*   - AgentControl      (ui/src/lib/types.ts, lines 191-397)               *)
(*   - SpecCreationChat  (ui/src/components/SpecCreationChat.tsx)           *)
(* A React component is modelled as its state (useState cells, props and   *)
(* the values returned by its hooks), its render output as operators over  *)
(* that state, and one action per event handler / effect / hook callback.  *)
(***************************************************************************)
EXTENDS Integers, Sequences, FiniteSets, TLC

(***************************************************************************)
(* JavaScript values                                                       *)
(***************************************************************************)
\* null / undefined of a string-typed slot
Null == "null"

\* JS truthiness of a `string | null | undefined` value
Truthy(s) == s # Null /\ s # ""

(***************************************************************************)
(* ======================  AgentControl  ================================= *)
(***************************************************************************)
VARIABLES
    status,        \* prop  status: AgentStatus
    yoloMode,      \* prop  yoloMode (server-reported)
    currentModel,  \* prop  model (server-reported), string | null
    yoloEnabled,   \* useState(false)
    model,         \* useState('claude-3-opus-20240229')
    isPending,     \* isPending of the four mutations
    lastRequest    \* the last request issued through a mutation, with the
                   \* props and state it was issued under

agentVars == <<status, yoloMode, currentModel, yoloEnabled, model, isPending, lastRequest>>

\* state of SpecCreationChat (its operations follow those of AgentControl)
VARIABLES
    phase,            \* "init" (not mounted yet), "mounted", "unmounted"
    input,            \* useState('')            : sequence of characters
    error,            \* useState<string|null>   : error banner text
    messages,         \* useSpecChat().messages  : sequence of ChatMessage (role only)
    isLoading,        \* useSpecChat().isLoading
    isComplete,       \* useSpecChat().isComplete
    connectionStatus, \* useSpecChat().connectionStatus
    currentQuestions, \* useSpecChat().currentQuestions : null or its length
    createdPath,      \* path of the spec_complete message received, or Null
    renderPending,    \* state changed since the last commit
    committedDeps,    \* dependency values of the mount effect at its last run
    effectStarts,     \* calls of start() made by the mount effect
    retryStarts,      \* calls of start() made by 'Retry Connection'
    disconnects,      \* calls of disconnect()
    sendAttempts,     \* invocations of handleSendMessage, modulo 2
    sendCalls,        \* number of calls of sendMessage
    lastSent,         \* argument of the last call of sendMessage (<<>> before the first)
    onCompleteArgs,   \* arguments onComplete was invoked with
    cancelled         \* onCancel was invoked

chatVars == <<phase, input, error, messages, isLoading, isComplete, connectionStatus,
              currentQuestions, createdPath, renderPending, committedDeps,
              effectStarts, retryStarts, disconnects, sendAttempts, sendCalls, lastSent,
              onCompleteArgs, cancelled>>

vars == <<agentVars, chatVars>>

AgentStatus == {"stopped", "running", "paused", "crashed"}

models == <<"claude-3-opus-20240229", "claude-3-sonnet-20240229",
            "claude-3-haiku-20240307", "gpt-4-turbo-preview", "gpt-3.5-turbo",
            "gemini-1.5-pro", "gemini-1.5-flash", "gemini-1.5-pro-latest">>

\* number of entries of `models` offered by the selector in the model
NumModels == 2

ModelChoices == {models[i] : i \in 1..NumModels}

\* values the parent may pass as the `model` prop
CurrentModelValues == {Null, ""} \cup {models[1]}

Mutations == {"start", "stop", "pause", "resume"}

NoRequest == [kind |-> "none", at |-> "stopped", yoloMode |-> FALSE, model |-> Null]

\* const isLoading = startAgent.isPending || stopAgent.isPending || ...
agentIsLoading == \E m \in Mutations : isPending[m]

\* const isStopped = status === 'stopped' || status === 'crashed'
isStopped(s) == s = "stopped" \/ s = "crashed"

\* The "Control Buttons" block: the controls rendered for a status.
RunningControlsWithStart(s) ==
    IF isStopped(s) THEN {"ModelSelector", "YoloToggle", "Start"}
    ELSE IF s = "running" THEN {"Start", "Pause", "Stop"}
    ELSE IF s = "paused" THEN {"Resume", "Stop"}
    ELSE {}

ControlButtons(s) ==
    IF isStopped(s) THEN {"ModelSelector", "YoloToggle", "Start"}
    ELSE IF s = "running" THEN {"Pause", "Stop"}
    ELSE IF s = "paused" THEN {"Resume", "Stop"}
    ELSE {}

\* the buttons that issue a request to the backend
RequestButtons(s) == ControlButtons(s) \cap {"Start", "Pause", "Resume", "Stop"}

\* {(status === 'running' || status === 'paused') && yoloMode && (...)}
YoloIndicatorShown == (status = "running" \/ status = "paused") /\ yoloMode

\* {(status === 'running' || status === 'paused') && currentModel && (...)}
ModelIndicatorShown == (status = "running" \/ status = "paused") /\ Truthy(currentModel)

\* a button that is rendered and not disabled={isLoading} can be clicked
Clickable(b) == b \in ControlButtons(status) /\ ~agentIsLoading

AgentInit ==
    /\ status \in AgentStatus
    /\ yoloMode \in BOOLEAN
    /\ currentModel \in CurrentModelValues
    /\ yoloEnabled = FALSE
    /\ model = models[1]
    /\ isPending = [m \in Mutations |-> FALSE]
    /\ lastRequest = NoRequest

\* The parent re-renders AgentControl with new props.
PropsChange ==
    /\ \E s \in AgentStatus, y \in BOOLEAN, m \in CurrentModelValues :
          /\ status' = s
          /\ yoloMode' = y
          /\ currentModel' = m
    /\ UNCHANGED <<yoloEnabled, model, isPending, lastRequest>>
    /\ UNCHANGED chatVars

\* <select onChange={(e) => setModel(e.target.value)}>
SetModel ==
    /\ "ModelSelector" \in ControlButtons(status)
    /\ \E m \in ModelChoices : model' = m
    /\ UNCHANGED <<status, yoloMode, currentModel, yoloEnabled, isPending, lastRequest>>
    /\ UNCHANGED chatVars

\* onClick={() => setYoloEnabled(!yoloEnabled)}
ToggleYolo ==
    /\ "YoloToggle" \in ControlButtons(status)
    /\ yoloEnabled' = ~yoloEnabled
    /\ UNCHANGED <<status, yoloMode, currentModel, model, isPending, lastRequest>>
    /\ UNCHANGED chatVars

\* mutation.mutate(): the request goes out and the mutation is pending
Mutate(kind) ==
    /\ isPending' = [isPending EXCEPT ![kind] = TRUE]
    /\ lastRequest' = [kind |-> kind, at |-> status,
                       yoloMode |-> IF kind = "start" THEN yoloEnabled ELSE FALSE,
                       model |-> IF kind = "start" THEN model ELSE Null]

\* const handleStart = () => startAgent.mutate({ yoloMode: yoloEnabled, model })
handleStart ==
    /\ Clickable("Start")
    /\ Mutate("start")
    /\ UNCHANGED <<status, yoloMode, currentModel, yoloEnabled, model>>
    /\ UNCHANGED chatVars

\* const handleStop = () => stopAgent.mutate()
handleStop ==
    /\ Clickable("Stop")
    /\ Mutate("stop")
    /\ UNCHANGED <<status, yoloMode, currentModel, yoloEnabled, model>>
    /\ UNCHANGED chatVars

\* const handlePause = () => pauseAgent.mutate()
handlePause ==
    /\ Clickable("Pause")
    /\ Mutate("pause")
    /\ UNCHANGED <<status, yoloMode, currentModel, yoloEnabled, model>>
    /\ UNCHANGED chatVars

\* const handleResume = () => resumeAgent.mutate()
handleResume ==
    /\ Clickable("Resume")
    /\ Mutate("resume")
    /\ UNCHANGED <<status, yoloMode, currentModel, yoloEnabled, model>>
    /\ UNCHANGED chatVars

\* A pending mutation settles (success or failure).
MutationSettled ==
    /\ \E m \in Mutations :
          /\ isPending[m]
          /\ isPending' = [isPending EXCEPT ![m] = FALSE]
    /\ UNCHANGED <<status, yoloMode, currentModel, yoloEnabled, model, lastRequest>>
    /\ UNCHANGED chatVars

AgentNext ==
    \/ PropsChange
    \/ SetModel
    \/ ToggleYolo
    \/ handleStart
    \/ handleStop
    \/ handlePause
    \/ handleResume
    \/ MutationSettled

(***************************************************************************)
(* ======================  SpecCreationChat  ============================= *)
(***************************************************************************)

\* ---- bounds of the model ----
MaxInputLen == 2      \* longest text typed into the input field
MaxMessages == 2      \* longest transcript
MaxRetries == 1       \* clicks on 'Retry Connection'

Chars == {" ", "a"}
Whitespace == {" "}

RECURSIVE StringsUpTo(_)
StringsUpTo(n) ==
    IF n = 0 THEN {<<>>}
    ELSE LET shorter == StringsUpTo(n - 1)
         IN shorter \cup {Append(s, c) : s \in {t \in shorter : Len(t) = n - 1}, c \in Chars}

InputValues == StringsUpTo(MaxInputLen)

\* String.prototype.trim
RECURSIVE trimStart(_)
trimStart(s) ==
    IF s # <<>> /\ Head(s) \in Whitespace THEN trimStart(Tail(s)) ELSE s

RECURSIVE trimEnd(_)
trimEnd(s) ==
    IF s # <<>> /\ s[Len(s)] \in Whitespace THEN trimEnd(SubSeq(s, 1, Len(s) - 1)) ELSE s

trim(s) == trimEnd(trimStart(s))

\* currentQuestions: SpecQuestion[] | null, kept as its length
NullQuestions == -1
\* JS truthiness of currentQuestions: null is falsy, every array is truthy
HasQuestions(q) == q # NullQuestions
\* lengths of the question batches the server sends: an empty and a non-empty one
QuestionBatchSizes == {0, 1}

SpecPaths == {"/proj/prompts/app_spec.txt"}
ErrorContents == {"boom"}



(***************************************************************************)
(* Render output of SpecCreationChat                                       *)
(***************************************************************************)
\* {!isComplete && ( <div> input area </div> )}
InputAreaAlwaysShown == TRUE

InputAreaShown == ~isComplete

\* {isComplete && ( <div> completion footer </div> )}
CompletionFooterShown == isComplete

\* <input disabled={(isLoading && !currentQuestions) || connectionStatus !== 'connected'}>
InputDisabledIgnoringConnection == isLoading /\ ~HasQuestions(currentQuestions)

InputDisabled ==
    (isLoading /\ ~HasQuestions(currentQuestions)) \/ connectionStatus # "connected"

\* <button disabled={!input.trim() || (isLoading && !currentQuestions)
\*                   || connectionStatus !== 'connected'}>
SendDisabled ==
    \/ trim(input) = <<>>
    \/ (isLoading /\ ~HasQuestions(currentQuestions))
    \/ connectionStatus # "connected"

\* {messages.length === 0 && !isLoading && ( ... placeholder card ... )}
EmptyStateShownWhileLoading == Len(messages) = 0

EmptyStateShown == Len(messages) = 0 /\ ~isLoading

\* {connectionStatus === 'error' && ( <button onClick={start}>Retry Connection )}
RetryOffered == EmptyStateShown /\ connectionStatus = "error"

\* {currentQuestions && currentQuestions.length > 0 && <QuestionOptions disabled={isLoading}>}
QuestionOptionsShown == HasQuestions(currentQuestions) /\ currentQuestions > 0

\* {isLoading && !currentQuestions && <TypingIndicator />}
TypingIndicatorShown == isLoading /\ ~HasQuestions(currentQuestions)

\* {error && ( ... banner ... )}
ErrorBannerShown == Truthy(error)

\* useEffect(() => { start(); return () => { disconnect() } }, [])
MountEffectDepsOnMessages == <<Len(messages)>>

MountEffectDeps == <<>>

(***************************************************************************)
(* useSpecChat: the calls the component makes into the hook                *)
(***************************************************************************)
\* start(): open the connection
start == connectionStatus' = "connecting"

\* disconnect(): close the connection
disconnect == connectionStatus' = "disconnected"

\* sendMessage(content)
sendMessage(content) ==
    /\ sendCalls' = sendCalls + 1
    /\ lastSent' = content
    /\ IF connectionStatus = "connected"
       THEN /\ messages' = Append(messages, [role |-> "user"])
            /\ currentQuestions' = NullQuestions
            /\ isLoading' = TRUE
            /\ error' = error
       ELSE /\ error' = "Not connected to server"
            /\ UNCHANGED <<messages, currentQuestions, isLoading>>

\* sendAnswer(answers)
sendAnswer ==
    /\ messages' = Append(messages, [role |-> "user"])
    /\ currentQuestions' = NullQuestions
    /\ isLoading' = TRUE

ChatInit ==
    /\ phase = "init"
    /\ input = <<>>
    /\ error = Null
    /\ messages = <<>>
    /\ isLoading = FALSE
    /\ isComplete = FALSE
    /\ connectionStatus = "disconnected"
    /\ currentQuestions = NullQuestions
    /\ createdPath = Null
    /\ renderPending = FALSE
    /\ committedDeps = <<>>
    /\ effectStarts = 0
    /\ retryStarts = 0
    /\ disconnects = 0
    /\ sendAttempts = 0
    /\ sendCalls = 0
    /\ lastSent = <<>>
    /\ onCompleteArgs = {}
    /\ cancelled = FALSE

\* the component is mounted, rendered and idle: events can be delivered
Interactive == phase = "mounted" /\ ~renderPending

\* First render and commit: the mount effect runs.
Mount ==
    /\ phase = "init"
    /\ phase' = "mounted"
    /\ start
    /\ effectStarts' = effectStarts + 1
    /\ committedDeps' = MountEffectDeps
    /\ renderPending' = TRUE
    /\ UNCHANGED <<input, error, messages, isLoading, isComplete, currentQuestions,
                   createdPath, retryStarts, disconnects, sendAttempts, sendCalls, lastSent,
                   onCompleteArgs, cancelled>>
    /\ UNCHANGED agentVars

\* Re-render after a state change: an effect runs again (cleanup, then body)
\* when its dependencies differ from those of its last run.
Commit ==
    /\ phase = "mounted"
    /\ renderPending
    /\ IF MountEffectDeps # committedDeps
       THEN /\ disconnects' = disconnects + 1
            /\ effectStarts' = effectStarts + 1
            /\ start
            /\ committedDeps' = MountEffectDeps
            /\ renderPending' = TRUE
       ELSE /\ renderPending' = FALSE
            /\ UNCHANGED <<disconnects, effectStarts, connectionStatus, committedDeps>>
    /\ UNCHANGED <<phase, input, error, messages, isLoading, isComplete, currentQuestions,
                   createdPath, retryStarts, sendAttempts, sendCalls, lastSent, onCompleteArgs, cancelled>>
    /\ UNCHANGED agentVars

\* Unmount: the cleanup of the mount effect runs.
Unmount ==
    /\ phase = "mounted"
    /\ phase' = "unmounted"
    /\ disconnect
    /\ disconnects' = disconnects + 1
    /\ renderPending' = FALSE
    /\ UNCHANGED <<input, error, messages, isLoading, isComplete, currentQuestions,
                   createdPath, committedDeps, effectStarts, retryStarts, sendAttempts,
                   sendCalls, lastSent, onCompleteArgs, cancelled>>
    /\ UNCHANGED agentVars

(***************************************************************************)
(* Event handlers of SpecCreationChat                                      *)
(***************************************************************************)
\* onChange={(e) => setInput(e.target.value)}
SetInput ==
    /\ Interactive
    /\ InputAreaShown /\ ~InputDisabled
    /\ \E v \in InputValues : v # input /\ input' = v
    /\ renderPending' = TRUE
    /\ UNCHANGED <<phase, error, messages, isLoading, isComplete, connectionStatus,
                   currentQuestions, createdPath, committedDeps, effectStarts,
                   retryStarts, disconnects, sendAttempts, sendCalls, lastSent, onCompleteArgs, cancelled>>
    /\ UNCHANGED agentVars

\* const handleSendMessage = () => {
\*   const trimmed = input.trim()
\*   if (!trimmed || isLoading) return
\*   sendMessage(trimmed); setInput('') }
handleSendMessage ==
    LET trimmed == trim(input) IN
    /\ sendAttempts' = 1 - sendAttempts
    /\ IF trimmed = <<>> \/ isLoading
       THEN UNCHANGED <<input, sendCalls, lastSent, messages, currentQuestions, isLoading, error,
                        renderPending>>
       ELSE /\ Len(messages) < MaxMessages
            /\ sendMessage(trimmed)
            /\ input' = <<>>
            /\ renderPending' = TRUE
    /\ UNCHANGED <<phase, isComplete, connectionStatus, createdPath, committedDeps,
                   effectStarts, retryStarts, disconnects, onCompleteArgs, cancelled>>
    /\ UNCHANGED agentVars

KeyEvents == [key : {"Enter", "a"}, shiftKey : BOOLEAN]

\* const handleKeyDown = (e) => { if (e.key === 'Enter' && !e.shiftKey) { ... handleSendMessage() } }
handleKeyDown ==
    /\ Interactive
    /\ InputAreaShown /\ ~InputDisabled
    /\ \E e \in KeyEvents :
          IF e.key = "Enter" /\ ~e.shiftKey
          THEN handleSendMessage
          ELSE UNCHANGED vars

\* <button onClick={handleSendMessage} disabled={...}>
ClickSend ==
    /\ Interactive
    /\ InputAreaShown /\ ~SendDisabled
    /\ handleSendMessage

\* const handleAnswerSubmit = (answers) => { sendAnswer(answers) }
handleAnswerSubmit ==
    /\ Interactive
    /\ QuestionOptionsShown /\ ~isLoading
    /\ Len(messages) < MaxMessages
    /\ sendAnswer
    /\ renderPending' = TRUE
    /\ UNCHANGED <<phase, input, error, isComplete, connectionStatus, createdPath,
                   committedDeps, effectStarts, retryStarts, disconnects, sendAttempts,
                   sendCalls, lastSent, onCompleteArgs, cancelled>>
    /\ UNCHANGED agentVars

\* <button onClick={start}> Retry Connection
ClickRetry ==
    /\ Interactive
    /\ RetryOffered
    /\ retryStarts < MaxRetries
    /\ start
    /\ retryStarts' = retryStarts + 1
    /\ renderPending' = TRUE
    /\ UNCHANGED <<phase, input, error, messages, isLoading, isComplete, currentQuestions,
                   createdPath, committedDeps, effectStarts, disconnects, sendAttempts,
                   sendCalls, lastSent, onCompleteArgs, cancelled>>
    /\ UNCHANGED agentVars

\* <button onClick={() => setError(null)}>
DismissError ==
    /\ Interactive
    /\ ErrorBannerShown
    /\ error' = Null
    /\ renderPending' = TRUE
    /\ UNCHANGED <<phase, input, messages, isLoading, isComplete, connectionStatus,
                   currentQuestions, createdPath, committedDeps, effectStarts,
                   retryStarts, disconnects, sendAttempts, sendCalls, lastSent, onCompleteArgs, cancelled>>
    /\ UNCHANGED agentVars

\* <button onClick={onCancel} title="Cancel">
ClickCancel ==
    /\ Interactive
    /\ cancelled' = TRUE
    /\ UNCHANGED <<phase, input, error, messages, isLoading, isComplete, connectionStatus,
                   currentQuestions, createdPath, renderPending, committedDeps,
                   effectStarts, retryStarts, disconnects, sendAttempts, sendCalls, lastSent,
                   onCompleteArgs>>
    /\ UNCHANGED agentVars

\* <button onClick={() => onComplete('')}> Continue to Project
ClickContinue ==
    /\ Interactive
    /\ CompletionFooterShown
    /\ onCompleteArgs' = onCompleteArgs \cup {""}
    /\ UNCHANGED <<phase, input, error, messages, isLoading, isComplete, connectionStatus,
                   currentQuestions, createdPath, renderPending, committedDeps,
                   effectStarts, retryStarts, disconnects, sendAttempts, sendCalls, lastSent, cancelled>>
    /\ UNCHANGED agentVars

(***************************************************************************)
(* useSpecChat: connection events and server messages                      *)
(***************************************************************************)
\* the variables no connection event or server message touches
componentVars == <<phase, input, committedDeps, effectStarts, retryStarts, disconnects,
                   sendAttempts, sendCalls, lastSent, cancelled>>

\* the socket opens: the session is started and the first response awaited
WsOpen ==
    /\ Interactive
    /\ connectionStatus = "connecting"
    /\ connectionStatus' = "connected"
    /\ isLoading' = TRUE
    /\ renderPending' = TRUE
    /\ UNCHANGED <<error, messages, isComplete, currentQuestions, createdPath, onCompleteArgs>>
    /\ UNCHANGED componentVars
    /\ UNCHANGED agentVars

\* the socket fails
WsError ==
    /\ Interactive
    /\ connectionStatus \in {"connecting", "connected"}
    /\ connectionStatus' = "error"
    /\ renderPending' = TRUE
    /\ UNCHANGED <<error, messages, isLoading, isComplete, currentQuestions, createdPath,
                   onCompleteArgs>>
    /\ UNCHANGED componentVars
    /\ UNCHANGED agentVars

\* the socket is closed by the server
WsClose ==
    /\ Interactive
    /\ connectionStatus = "connected"
    /\ connectionStatus' = "disconnected"
    /\ renderPending' = TRUE
    /\ UNCHANGED <<error, messages, isLoading, isComplete, currentQuestions, createdPath,
                   onCompleteArgs>>
    /\ UNCHANGED componentVars
    /\ UNCHANGED agentVars

\* SpecChatTextMessage: a chunk extends the streaming assistant message,
\* or opens a new one
ServerText ==
    /\ Interactive
    /\ connectionStatus = "connected"
    /\ LET n == Len(messages) IN
       IF n > 0 /\ messages[n].role = "assistant"
       THEN messages' = messages
       ELSE /\ n < MaxMessages
            /\ messages' = Append(messages, [role |-> "assistant"])
    /\ renderPending' = TRUE
    /\ UNCHANGED <<error, isLoading, isComplete, currentQuestions, createdPath, onCompleteArgs>>
    /\ UNCHANGED connectionStatus
    /\ UNCHANGED componentVars
    /\ UNCHANGED agentVars

\* SpecChatQuestionMessage: a batch of structured questions
ServerQuestion ==
    /\ Interactive
    /\ connectionStatus = "connected"
    /\ \E n \in QuestionBatchSizes : n # currentQuestions /\ currentQuestions' = n
    /\ renderPending' = TRUE
    /\ UNCHANGED <<error, messages, isLoading, isComplete, createdPath, onCompleteArgs>>
    /\ UNCHANGED connectionStatus
    /\ UNCHANGED componentVars
    /\ UNCHANGED agentVars

\* SpecChatResponseDoneMessage: the assistant's turn is over
ServerResponseDone ==
    /\ Interactive
    /\ connectionStatus = "connected"
    /\ isLoading
    /\ isLoading' = FALSE
    /\ renderPending' = TRUE
    /\ UNCHANGED <<error, messages, isComplete, currentQuestions, createdPath, onCompleteArgs>>
    /\ UNCHANGED connectionStatus
    /\ UNCHANGED componentVars
    /\ UNCHANGED agentVars

\* SpecChatCompleteMessage: the spec was written; onComplete(path) is called
ServerSpecComplete ==
    /\ Interactive
    /\ connectionStatus = "connected"
    /\ ~isComplete
    /\ \E path \in SpecPaths :
          /\ createdPath' = path
          /\ onCompleteArgs' = onCompleteArgs \cup {path}
    /\ isComplete' = TRUE
    /\ isLoading' = FALSE
    /\ renderPending' = TRUE
    /\ UNCHANGED <<error, messages, currentQuestions>>
    /\ UNCHANGED connectionStatus
    /\ UNCHANGED componentVars
    /\ UNCHANGED agentVars

\* SpecChatErrorMessage: onError(content), i.e. setError(content)
ServerError ==
    /\ Interactive
    /\ connectionStatus = "connected"
    /\ \E content \in ErrorContents : error' = content
    /\ isLoading' = FALSE
    /\ renderPending' = (error' # error \/ isLoading)
    /\ UNCHANGED <<messages, isComplete, currentQuestions, createdPath, onCompleteArgs>>
    /\ UNCHANGED connectionStatus
    /\ UNCHANGED componentVars
    /\ UNCHANGED agentVars

ChatNext ==
    \/ Mount
    \/ Commit
    \/ Unmount
    \/ SetInput
    \/ handleKeyDown
    \/ ClickSend
    \/ handleAnswerSubmit
    \/ ClickRetry
    \/ DismissError
    \/ ClickCancel
    \/ ClickContinue
    \/ WsOpen
    \/ WsError
    \/ WsClose
    \/ ServerText
    \/ ServerQuestion
    \/ ServerResponseDone
    \/ ServerSpecComplete
    \/ ServerError

(***************************************************************************)
(* Specifications                                                          *)
(***************************************************************************)
\* AgentControl before any interaction, under fixed props
AgentIdle ==
    /\ status = "stopped"
    /\ yoloMode = FALSE
    /\ currentModel = Null
    /\ yoloEnabled = FALSE
    /\ model = models[1]
    /\ isPending = [m \in Mutations |-> FALSE]
    /\ lastRequest = NoRequest

\* AgentControl alone, under every combination of props
InitAgent == AgentInit /\ ChatInit

SpecAgent == InitAgent /\ [][AgentNext]_vars

\* SpecCreationChat alone
InitChat == AgentIdle /\ ChatInit

SpecChat == InitChat /\ [][ChatNext]_vars

(***************************************************************************)
(* Properties of AgentControl (checked under SpecAgent)                    *)
(***************************************************************************)
\* C1: for every status the request buttons rendered are exactly Start (with
\* the model selector and the YOLO toggle) when stopped or crashed, Pause and
\* Stop when running, Resume and Stop when paused; so every request issued
\* was issued under a status that renders its button.
C1_RequestButtonsByStatus ==
    /\ RequestButtons(status) =
          CASE status \in {"stopped", "crashed"} -> {"Start"}
            [] status = "running" -> {"Pause", "Stop"}
            [] status = "paused" -> {"Resume", "Stop"}
    /\ ("Start" \in ControlButtons(status))
          <=> ({"ModelSelector", "YoloToggle"} \subseteq ControlButtons(status))
    /\ ("Start" \notin ControlButtons(status))
          <=> ({"ModelSelector", "YoloToggle"} \cap ControlButtons(status) = {})
    /\ lastRequest.kind = "start" => lastRequest.at \in {"stopped", "crashed"}
    /\ lastRequest.kind = "pause" => lastRequest.at = "running"
    /\ lastRequest.kind = "resume" => lastRequest.at = "paused"
    /\ lastRequest.kind = "stop" => lastRequest.at \in {"running", "paused"}

\* a start request was issued and the agent now runs: Start is no longer offered
C1_Witness ==
    /\ lastRequest.kind = "start"
    /\ status = "running"
    /\ ~agentIsLoading

\* C7: the model indicator is rendered only when the agent is running or
\* paused in YOLO mode (server-reported yoloMode is true).
C7_ModelIndicatorOnlyInYoloMode ==
    ModelIndicatorShown => ((status = "running" \/ status = "paused") /\ yoloMode)

(***************************************************************************)
(* Properties of SpecCreationChat (checked under SpecChat)                 *)
(***************************************************************************)
\* C2: start() is called exactly once by the mount effect and disconnect()
\* exactly once, at unmount, after it; no re-render between mount and unmount
\* calls either of them.
C2_StartOnceDisconnectOnce ==
    /\ phase = "init" => (effectStarts = 0 /\ disconnects = 0)
    /\ phase = "mounted" => (effectStarts = 1 /\ disconnects = 0)
    /\ phase = "unmounted" => (effectStarts = 1 /\ disconnects = 1)

\* unmounted after re-renders caused by messages, questions, input and error
C2_Witness ==
    /\ phase = "unmounted"
    /\ Len(messages) = MaxMessages
    /\ HasQuestions(currentQuestions)
    /\ input # <<>>
    /\ Truthy(error)
    /\ disconnects = 1

\* C3: every invocation of onComplete passes the path of the created
\* specification.
C3_OnCompletePassesSpecPath ==
    \A arg \in onCompleteArgs : arg = createdPath

\* C4: exactly one of the input area and the completion footer is rendered,
\* the input area iff isComplete is false; sendMessage is never invoked while
\* isComplete is true.
C4_InputAreaXorFooter ==
    /\ [](/\ InputAreaShown # CompletionFooterShown
          /\ InputAreaShown <=> ~isComplete
          /\ CompletionFooterShown <=> isComplete)
    /\ [][sendCalls' # sendCalls => ~isComplete]_vars

\* the spec is complete while a sendable text sits in the input field
C4_Witness ==
    /\ phase = "mounted"
    /\ isComplete
    /\ trim(input) # <<>>
    /\ connectionStatus = "connected"
    /\ ~isLoading
    /\ Len(messages) < MaxMessages
    /\ sendCalls > 0

\* C5: sendMessage is invoked only with a non-empty trimmed input, isLoading
\* false and the connection 'connected'; it is passed the trimmed input and
\* the input field is empty afterwards. An invocation of handleSendMessage
\* with an empty trimmed input or with isLoading true calls nothing and
\* leaves the input unchanged.
C5_SendMessageGuard ==
    [][/\ sendCalls' # sendCalls =>
            /\ trim(input) # <<>>
            /\ ~isLoading
            /\ connectionStatus = "connected"
            /\ sendCalls' = sendCalls + 1
            /\ lastSent' = trim(input)
            /\ input' = <<>>
       /\ (sendAttempts' # sendAttempts /\ (trim(input) = <<>> \/ isLoading)) =>
            UNCHANGED <<input, sendCalls, lastSent, messages, isLoading, currentQuestions,
                        error, connectionStatus, effectStarts, retryStarts, disconnects,
                        onCompleteArgs, cancelled>>
      ]_vars

\* two invocations of handleSendMessage, one of which sent the message
C5_Witness ==
    /\ sendCalls = 1
    /\ sendAttempts = 0
    /\ lastSent # <<>>
    /\ input = <<>>

\* C6: 'Retry Connection' is offered exactly when the connection is in error,
\* the transcript is empty and isLoading is false; activating it calls start().
C6_RetryOfferedExactly ==
    /\ [](RetryOffered <=>
             (connectionStatus = "error" /\ Len(messages) = 0 /\ ~isLoading))
    /\ [][retryStarts' # retryStarts =>
             /\ connectionStatus = "error"
             /\ Len(messages) = 0
             /\ ~isLoading
             /\ retryStarts' = retryStarts + 1
             /\ connectionStatus' = "connecting"]_vars

\* after a retry the connection failed again, with a transcript: no retry
C6_Witness ==
    /\ retryStarts > 0
    /\ connectionStatus = "error"
    /\ Len(messages) > 0
    /\ ~isLoading
    /\ ~RetryOffered

====
